---- MODULE Spec2Model ----
(***************************************************************************)
(* The streaming research client: ApiClient.researchStream (utils/api.ts)  *)
(* and the ResearchBot component that drives it (ResearchBot.tsx).         *)
(*                                                                         *)
(* Text is a sequence of tokens (strings).  A token is an indivisible run  *)
(* of characters: the newline, the two halves "da" / "ta: " of the record  *)
(* prefix, the event prefix, and the pieces of a JSON payload ("{", a key, *)
(* a value literal, "}").  A chunk boundary may fall between any two       *)
(* tokens.  A JSON value is the token of its literal text.                 *)
(***************************************************************************)
EXTENDS Integers, Sequences, FiniteSets, TLC

VARIABLES
    query, loading, result, error, traceId, currentQuery, serverStatus,
    currentStage, statusMessage, searchPlan, currentSearchIndex,
    completedSearches,
    pc, buffer, locked,
    wire, sent, probes,
    log,
    requests, other

uiVars == <<loading, result, error, traceId, serverStatus, currentStage,
            statusMessage, searchPlan, currentSearchIndex, completedSearches>>
streamVars == <<pc, buffer, locked>>
envVars == <<wire, sent>>
histVars == <<requests, other>>
vars == <<query, currentQuery, uiVars, streamVars, envVars, probes, log, histVars>>

\* ------------------------------------------------------------ bounds
MaxLines == 2
MaxProbes == 1
MaxRequests == 2

\* ------------------------------------------------------------ tokens
NL == "\n"
LBrace == "{"
RBrace == "}"
Undefined == "undefined"
Null == "null"
EmptyStr == "''"

PlanA == "{searches:[s1,s2]}"
PlanB == "{searches:[s3]}"
PlanNoSearches == "{}"
Item == "{query:'x',reason:'y'}"
ResFull == "{report:R1,traceId:T1}"
ResNoReport == "{traceId:T1}"

Keys == {"stage", "message", "searchPlan", "currentSearch", "searchItem",
         "completed", "error", "success", "query", "result", "other"}

JsonValues == {"'planning'", "'m1'", "'m2'", "'timeout'", "'boom'", "'q'", "'yes'",
               EmptyStr, "0", "1", "2", "true", "false", Null,
               PlanA, PlanB, PlanNoSearches, Item, ResFull, ResNoReport}

\* JavaScript truthiness of a value (undefined is the value of an absent field).
Truthy(v) == v \notin {Undefined, Null, "false", "0", EmptyStr}

\* x.searches || []
SearchesOrEmpty(v) ==
    CASE v = PlanA -> <<"s1", "s2">>
      [] v = PlanB -> <<"s3">>
      [] OTHER -> <<>>

\* x.report and x.traceId of a value that is neither undefined nor null
PropReport(v) == IF v = ResFull THEN "R1" ELSE Undefined
PropTraceId(v) == IF v \in {ResFull, ResNoReport} THEN "T1" ELSE Undefined

\* The number a numeric literal denotes.
Num(v) == CASE v = "0" -> 0 [] v = "1" -> 1 [] v = "2" -> 2 [] OTHER -> -1

\* ------------------------------------------------------------ text
\* JSON.stringify of an object given as a sequence of <<key, value>> pairs.
RECURSIVE Members(_)
Members(pairs) ==
    IF pairs = <<>> THEN <<>>
    ELSE <<pairs[1][1], pairs[1][2]>> \o Members(Tail(pairs))

Stringify(pairs) == <<LBrace>> \o Members(pairs) \o <<RBrace>>

DataLine(payload) == <<"da", "ta: ">> \o payload
EventLine == <<"event: ", "x">>

\* line.startsWith('data: ') and line.startsWith('event: ')
StartsWithData(line) == Len(line) >= 2 /\ line[1] = "da" /\ line[2] = "ta: "
StartsWithEvent(line) == Len(line) >= 1 /\ line[1] = "event: "

\* buffer.split('\n'): the pieces between newlines; the last piece is the
\* text after the last newline (empty when the text ends with a newline).
RECURSIVE SplitFrom(_, _, _)
SplitFrom(text, piece, pieces) ==
    IF text = <<>> THEN Append(pieces, piece)
    ELSE IF Head(text) = NL THEN SplitFrom(Tail(text), <<>>, Append(pieces, piece))
    ELSE SplitFrom(Tail(text), Append(piece, Head(text)), pieces)

Split(text) == SplitFrom(text, <<>>, <<>>)

\* The pieces put together again, a newline between any two.
RECURSIVE Join(_)
Join(pieces) ==
    IF Len(pieces) = 1 THEN Head(pieces)
    ELSE Head(pieces) \o <<NL>> \o Join(Tail(pieces))

\* JSON.parse(line.substring(6)): succeeds on "{" key value ... "}".
ParseOk(t) ==
    /\ Len(t) >= 2
    /\ t[1] = LBrace
    /\ t[Len(t)] = RBrace
    /\ (Len(t) - 2) % 2 = 0
    /\ \A i \in 1..((Len(t) - 2) \div 2) :
          t[2*i] \in Keys /\ t[2*i + 1] \in JsonValues

\* The object parsed: a function from the keys present to their values; a
\* repeated key keeps its last value.
Parse(t) ==
    LET n == (Len(t) - 2) \div 2
        ks == {t[2*i] : i \in 1..n}
        last(k) == CHOOSE i \in 1..n :
                      t[2*i] = k /\ \A j \in 1..n : t[2*j] = k => j <= i
    IN [k \in ks |-> t[2*last(k) + 1]]

\* data.f
Get(data, f) == IF f \in DOMAIN data THEN data[f] ELSE Undefined

\* A faulty variant: the terminal test comes first in the chain.
ClassifySuccessFirst(data) ==
    IF Get(data, "success") # Undefined
         THEN IF Truthy(Get(data, "success")) THEN "onComplete" ELSE "onError"
    ELSE IF Truthy(Get(data, "stage")) THEN "onStatus"
    ELSE IF Truthy(Get(data, "searchPlan")) THEN "onPlan"
    ELSE IF Get(data, "currentSearch") # Undefined /\ Truthy(Get(data, "searchItem"))
         THEN "onSearch"
    ELSE IF Get(data, "currentSearch") # Undefined /\ Get(data, "completed") # Undefined
         THEN "onSearchComplete"
    ELSE IF Get(data, "currentSearch") # Undefined /\ Truthy(Get(data, "error"))
         THEN "onSearchError"
    ELSE "none"

\* A faulty variant: every field is tested with `!== undefined`.
ClassifyByPresence(data) ==
    IF Get(data, "stage") # Undefined THEN "onStatus"
    ELSE IF Get(data, "searchPlan") # Undefined THEN "onPlan"
    ELSE IF Get(data, "currentSearch") # Undefined /\ Get(data, "searchItem") # Undefined
         THEN "onSearch"
    ELSE IF Get(data, "currentSearch") # Undefined /\ Get(data, "completed") # Undefined
         THEN "onSearchComplete"
    ELSE IF Get(data, "currentSearch") # Undefined /\ Get(data, "error") # Undefined
         THEN "onSearchError"
    ELSE IF Get(data, "success") # Undefined
         THEN IF Truthy(Get(data, "success")) THEN "onComplete" ELSE "onError"
    ELSE "none"

\* A faulty variant: `data.success === true` instead of `data.success`.
ClassifyStrictTrue(data) ==
    IF Truthy(Get(data, "stage")) THEN "onStatus"
    ELSE IF Truthy(Get(data, "searchPlan")) THEN "onPlan"
    ELSE IF Get(data, "currentSearch") # Undefined /\ Truthy(Get(data, "searchItem"))
         THEN "onSearch"
    ELSE IF Get(data, "currentSearch") # Undefined /\ Get(data, "completed") # Undefined
         THEN "onSearchComplete"
    ELSE IF Get(data, "currentSearch") # Undefined /\ Truthy(Get(data, "error"))
         THEN "onSearchError"
    ELSE IF Get(data, "success") # Undefined
         THEN IF Get(data, "success") = "true" THEN "onComplete" ELSE "onError"
    ELSE "none"

\* A faulty variant: a record that matches no branch fails the session.
ClassifyMissFails(data) ==
    IF Truthy(Get(data, "stage")) THEN "onStatus"
    ELSE IF Truthy(Get(data, "searchPlan")) THEN "onPlan"
    ELSE IF Get(data, "currentSearch") # Undefined /\ Truthy(Get(data, "searchItem"))
         THEN "onSearch"
    ELSE IF Get(data, "currentSearch") # Undefined /\ Get(data, "completed") # Undefined
         THEN "onSearchComplete"
    ELSE IF Get(data, "currentSearch") # Undefined /\ Truthy(Get(data, "error"))
         THEN "onSearchError"
    ELSE IF Get(data, "success") # Undefined
         THEN IF Truthy(Get(data, "success")) THEN "onComplete" ELSE "onError"
    ELSE "onError"

\* ------------------------------------------------------------ classifier
\* The if / else-if chain of researchStream: the callback a parsed record is
\* dispatched to, "none" when no branch matches.
Classify(data) ==
    IF Truthy(Get(data, "stage")) THEN "onStatus"
    ELSE IF Truthy(Get(data, "searchPlan")) THEN "onPlan"
    ELSE IF Get(data, "currentSearch") # Undefined /\ Truthy(Get(data, "searchItem"))
         THEN "onSearch"
    ELSE IF Get(data, "currentSearch") # Undefined /\ Get(data, "completed") # Undefined
         THEN "onSearchComplete"
    ELSE IF Get(data, "currentSearch") # Undefined /\ Truthy(Get(data, "error"))
         THEN "onSearchError"
    ELSE IF Get(data, "success") # Undefined
         THEN IF Truthy(Get(data, "success")) THEN "onComplete" ELSE "onError"
    ELSE "none"

\* The branch that ends with `return`.
IsTerminal(cb) == cb \in {"onComplete", "onError"}

\* A faulty variant: the message is read from the field `error`.
ErrorMessageFromError(data) ==
    IF Truthy(Get(data, "error")) THEN Get(data, "error") ELSE "'Research failed'"

\* data.message || 'Research failed'
ErrorMessage(data) ==
    IF Truthy(Get(data, "message")) THEN Get(data, "message") ELSE "'Research failed'"

\* The argument a callback is invoked with: the record, or for onError the
\* message (kept as a record with the one field `message`).
Argument(cb, data) ==
    IF cb = "onError" THEN [message |-> ErrorMessage(data)] ELSE data

\* ------------------------------------------------------------ callbacks
\* The component state the callbacks of handleResearch write.
UiState ==
    [loading |-> loading, result |-> result, error |-> error,
     traceId |-> traceId, serverStatus |-> serverStatus,
     currentStage |-> currentStage, statusMessage |-> statusMessage,
     searchPlan |-> searchPlan, currentSearchIndex |-> currentSearchIndex,
     completedSearches |-> completedSearches]

onStatus(st, data) ==
    [st EXCEPT !.currentStage = Get(data, "stage"),
               !.statusMessage = Get(data, "message")]

\* A faulty variant: the plan callback also resets the current search index.
onPlanResetsIndex(st, data) ==
    [st EXCEPT !.searchPlan = SearchesOrEmpty(Get(data, "searchPlan")),
               !.statusMessage = Get(data, "message"),
               !.currentSearchIndex = "0"]


onPlan(st, data) ==
    [st EXCEPT !.searchPlan = SearchesOrEmpty(Get(data, "searchPlan")),
               !.statusMessage = Get(data, "message")]

onSearch(st, data) ==
    [st EXCEPT !.currentSearchIndex = Get(data, "currentSearch"),
               !.statusMessage = Get(data, "message")]

\* A faulty variant: the search-complete callback also clears the plan.
onSearchCompleteClearsPlan(st, data) ==
    [st EXCEPT !.completedSearches = Get(data, "completed"),
               !.statusMessage = Get(data, "message"),
               !.searchPlan = <<>>]


onSearchComplete(st, data) ==
    [st EXCEPT !.completedSearches = Get(data, "completed"),
               !.statusMessage = Get(data, "message")]

\* A faulty variant: a failed search fails the session.
onSearchErrorFails(st, data) ==
    [st EXCEPT !.error = Get(data, "error"), !.loading = FALSE]


onSearchError(st, data) == st

\* response.result.report throws a TypeError when result is undefined or null,
\* before any state is set.
onCompleteThrows(data) == Get(data, "result") \in {Undefined, Null}

\* A faulty variant: a completed session also marks the server online.
onCompleteSetsOnline(st, data) ==
    [st EXCEPT !.result = PropReport(Get(data, "result")),
               !.traceId = PropTraceId(Get(data, "result")),
               !.serverStatus = "online",
               !.loading = FALSE]

onComplete(st, data) ==
    [st EXCEPT !.result = PropReport(Get(data, "result")),
               !.traceId = PropTraceId(Get(data, "result")),
               !.loading = FALSE]

onError(st, errorMessage) ==
    [st EXCEPT !.error = errorMessage,
               !.serverStatus = "offline",
               !.loading = FALSE]

Throws(cb, data) == cb = "onComplete" /\ onCompleteThrows(data)

Invoke(st, cb, data) ==
    CASE cb = "onStatus" -> onStatus(st, data)
      [] cb = "onPlan" -> onPlan(st, data)
      [] cb = "onSearch" -> onSearch(st, data)
      [] cb = "onSearchComplete" -> onSearchComplete(st, data)
      [] cb = "onSearchError" -> onSearchError(st, data)
      [] cb = "onComplete" -> IF onCompleteThrows(data) THEN st ELSE onComplete(st, data)
      [] cb = "onError" -> onError(st, ErrorMessage(data))
      [] OTHER -> st

\* ------------------------------------------------------------ decoder
Nothing(st) == [st |-> st, log |-> <<>>, stop |-> FALSE]

\* A faulty variant: the catch block leaves researchStream.
CatchBlockReturns(st) == [st |-> st, log |-> <<>>, stop |-> TRUE]

\* The catch block around JSON.parse and the dispatch: it logs to the console
\* and the loop goes on with the next line.
CatchBlock(st) == Nothing(st)

\* A faulty variant: the `return` is reached although the callback threw.
ReturnsThoughThrown(cb, data) == IsTerminal(cb)

\* Whether the try block reaches its `return`: the branch is the terminal
\* one and the callback did not throw into the catch.
Returns(cb, data) == IsTerminal(cb) /\ ~Throws(cb, data)

\* A faulty variant: an `event: ` line ends the loop and the stream.
ProcessLineEventReturns(st, line) ==
    IF StartsWithEvent(line) THEN [st |-> st, log |-> <<>>, stop |-> TRUE]
    ELSE IF StartsWithData(line) /\ ~ParseOk(SubSeq(line, 3, Len(line))) THEN
        CatchBlock(st)
    ELSE IF StartsWithData(line) THEN
        LET data == Parse(SubSeq(line, 3, Len(line)))
            cb == Classify(data)
        IN IF cb = "none" THEN Nothing(st)
           ELSE [st |-> Invoke(st, cb, data),
                 log |-> << [cb |-> cb, arg |-> Argument(cb, data),
                             threw |-> Throws(cb, data)] >>,
                 stop |-> Returns(cb, data)]
    ELSE Nothing(st)

\* One iteration of `for (const line of lines)`.
ProcessLine(st, line) ==
    IF StartsWithEvent(line) THEN Nothing(st)
    ELSE IF StartsWithData(line) /\ ~ParseOk(SubSeq(line, 3, Len(line))) THEN
        CatchBlock(st)
    ELSE IF StartsWithData(line) THEN
        LET data == Parse(SubSeq(line, 3, Len(line)))
            cb == Classify(data)
        IN IF cb = "none" THEN Nothing(st)
           ELSE [st |-> Invoke(st, cb, data),
                 log |-> << [cb |-> cb, arg |-> Argument(cb, data),
                             threw |-> Throws(cb, data)] >>,
                 stop |-> Returns(cb, data)]
    ELSE Nothing(st)

\* The for loop, left at the first iteration that returns.
RECURSIVE ProcessLines(_, _, _)
ProcessLines(st, lines, evs) ==
    IF lines = <<>> THEN [st |-> st, log |-> evs, stop |-> FALSE]
    ELSE LET r == ProcessLine(st, Head(lines))
         IN IF r.stop THEN [st |-> r.st, log |-> evs \o r.log, stop |-> TRUE]
            ELSE ProcessLines(r.st, Tail(lines), evs \o r.log)

\* A faulty variant: `buffer = ''`, the text after the last newline is dropped.
CarryDropped(pieces) == <<>>

\* A faulty variant: the buffer keeps the lines that were processed.
CarryKeepsLines(pieces) == Join(pieces)

\* A faulty variant: the last piece is not popped and is processed too.
CompleteLinesAndLast(pieces) == pieces

\* lines.pop() || '', and the lines left in `lines`.
Carry(pieces) == pieces[Len(pieces)]
CompleteLines(pieces) == SubSeq(pieces, 1, Len(pieces) - 1)

\* The body of the while loop for one chunk that is not the end of the stream.
ProcessChunk(buf, st, chunk) ==
    LET pieces == Split(buf \o chunk)
        r == ProcessLines(st, CompleteLines(pieces), <<>>)
    IN [buffer |-> Carry(pieces), st |-> r.st, log |-> r.log, stop |-> r.stop]

\* ------------------------------------------------------------ the service
\* Records the service may send, as the key/value pairs it serialises.
StatusRec == << <<"stage", "'planning'">>, <<"message", "'m1'">> >>
PlanRecA == << <<"searchPlan", PlanA>>, <<"message", "'m2'">> >>
PlanRecB == << <<"searchPlan", PlanB>> >>
SearchRec(i) == << <<"currentSearch", i>>, <<"searchItem", Item>> >>
SearchDoneRec == << <<"currentSearch", "1">>, <<"completed", "1">> >>
SearchFailedRec == << <<"currentSearch", "2">>, <<"error", "'timeout'">> >>
CompleteRec == << <<"success", "true">>, <<"result", ResFull>> >>
CompleteNoResultRec == << <<"success", "true">> >>
FailedRec == << <<"success", "false">>, <<"message", "'boom'">> >>
OtherRec == << <<"other", "1">> >>

\* The records of a session that plans, searches and reports.
SessionRecords ==
    {StatusRec, PlanRecA, PlanRecB, SearchRec("1"), SearchRec("2"), SearchDoneRec,
     SearchFailedRec, CompleteRec, CompleteNoResultRec, FailedRec}

FailedNoMessageRec == << <<"success", "false">> >>
FailedEmptyMessageRec == << <<"success", "false">>, <<"message", EmptyStr>> >>
CompleteEmptyResultRec ==
    << <<"success", "true">>, <<"query", "'q'">>, <<"result", PlanNoSearches>> >>

EmptyRec == <<>>
OnlyIndexRec == << <<"currentSearch", "1">> >>
NullPlanRec == << <<"searchPlan", Null>>, <<"message", "'m2'">> >>

MalformedLine == DataLine(<<LBrace, "not json", RBrace>>)
BlankLine == <<>>
NoPrefixLine == Stringify(OtherRec)

\* The lines of a response, each without its newline.
Lines == {DataLine(Stringify(r)) : r \in SessionRecords}

\* The lines of a short session, for the component across sessions.
ShortLines ==
    {DataLine(Stringify(r)) :
        r \in {StatusRec, PlanRecA, SearchRec("1"), CompleteRec, FailedRec}}

\* The lines that exercise the framing: two records, a malformed payload and
\* lines that are no `data: ` line.
FramingLines ==
    {DataLine(Stringify(StatusRec)), DataLine(Stringify(CompleteRec)),
     MalformedLine, EventLine, BlankLine, NoPrefixLine}

\* Records that match no branch of the classifier, and two that do.
MissLines ==
    {DataLine(Stringify(r)) :
        r \in {OtherRec, EmptyRec, OnlyIndexRec, NullPlanRec, StatusRec, CompleteRec}}

\* The terminal records, with and without the fields the callbacks read, and
\* a Status to follow them.
TerminalLines ==
    {DataLine(Stringify(r)) :
        r \in {FailedRec, FailedNoMessageRec, FailedEmptyMessageRec, CompleteRec,
               CompleteNoResultRec, CompleteEmptyResultRec, StatusRec}}

\* The lines of a one-record response.
TwoLines ==
    {DataLine(Stringify(r)) : r \in {StatusRec, CompleteRec, FailedRec}}

\* Records of every callback, a Complete whose callback throws, a record
\* that matches no rule and a malformed line.
OrderLines ==
    {DataLine(Stringify(r)) :
        r \in {StatusRec, PlanRecA, SearchRec("1"), SearchDoneRec, SearchFailedRec,
               CompleteRec, CompleteNoResultRec, FailedRec, OtherRec}}
    \cup {MalformedLine}

\* The text of a response: the `data: ` lines of its records, each with its
\* newline.
RECURSIVE ResponseText(_)
ResponseText(records) ==
    IF records = <<>> THEN <<>>
    ELSE DataLine(Stringify(Head(records))) \o <<NL>> \o ResponseText(Tail(records))

\* Whole responses: a session that plans, searches and reports; one that
\* fails after a failed search; a report with an empty result; a Complete
\* without result followed by a failure; a response that ends after a Status.
Responses ==
    {ResponseText(<<StatusRec, PlanRecA, SearchRec("1"), SearchDoneRec, CompleteRec>>),
     ResponseText(<<StatusRec, PlanRecB, SearchRec("2"), SearchFailedRec, FailedRec>>),
     ResponseText(<<CompleteEmptyResultRec>>),
     ResponseText(<<CompleteNoResultRec, FailedNoMessageRec>>),
     ResponseText(<<StatusRec>>)}

\* Lines the service may leave unterminated.
PartialLines == {DataLine(Stringify(CompleteRec))}

\* Every shape of record over the fields the classifier reads: each field
\* absent (undefined), present with a falsy value, or present with a truthy one.
ShapeFields == <<"stage", "searchPlan", "currentSearch", "searchItem", "completed",
                 "error", "success">>

ShapeValues(f) ==
    CASE f = "stage" -> {Undefined, EmptyStr, "'planning'"}
      [] f = "searchPlan" -> {Undefined, Null, PlanA}
      [] f = "currentSearch" -> {Undefined, "0", "1"}
      [] f = "searchItem" -> {Undefined, Null, Item}
      [] f = "completed" -> {Undefined, "0", "1"}
      [] f = "error" -> {Undefined, EmptyStr, "'timeout'"}
      [] f = "success" -> {Undefined, "true", "false", Null, "0", "1", EmptyStr, "'yes'"}

Shapes ==
    {[stage |-> a, searchPlan |-> b, currentSearch |-> c, searchItem |-> d,
      completed |-> e, error |-> f, success |-> g] :
        a \in ShapeValues("stage"), b \in ShapeValues("searchPlan"),
        c \in ShapeValues("currentSearch"), d \in ShapeValues("searchItem"),
        e \in ShapeValues("completed"), f \in ShapeValues("error"),
        g \in ShapeValues("success")}

\* The pairs of the fields a shape has, in the order of ShapeFields.
RECURSIVE PairsFrom(_, _)
PairsFrom(shape, i) ==
    IF i > Len(ShapeFields) THEN <<>>
    ELSE (IF shape[ShapeFields[i]] = Undefined THEN <<>>
          ELSE << <<ShapeFields[i], shape[ShapeFields[i]]>> >>)
         \o PairsFrom(shape, i + 1)

ShapeLines == {DataLine(Stringify(PairsFrom(shape, 1))) : shape \in Shapes}

\* Number of lines, terminated or not, in a text.
LineCount(text) ==
    Cardinality({i \in 1..Len(text) : text[i] = NL})
    + (IF text # <<>> /\ text[Len(text)] # NL THEN 1 ELSE 0)

\* ------------------------------------------------------------ the user
\* The component state of a new instance: the initial values of its useState
\* cells.
MountUi ==
    [loading |-> FALSE, result |-> Null, error |-> Null, traceId |-> Undefined,
     serverStatus |-> "unknown", currentStage |-> EmptyStr,
     statusMessage |-> EmptyStr, searchPlan |-> <<>>,
     currentSearchIndex |-> "0", completedSearches |-> "0"]

\* The session of an instance that has gone away: none yet.
NoSession ==
    [pc |-> "none", buffer |-> <<>>, locked |-> FALSE, wire |-> <<>>,
     sent |-> <<>>, log |-> <<>>, st |-> MountUi]

TypedQueries == {" ", " a ", "b"}

\* query.trim()
Trim(q) == CASE q = " " -> "" [] q = " a " -> "a" [] OTHER -> q

Init ==
    /\ query = ""
    /\ loading = FALSE
    /\ result = Null
    /\ error = Null
    /\ traceId = Undefined
    /\ currentQuery = ""
    /\ serverStatus = "unknown"
    /\ currentStage = EmptyStr
    /\ statusMessage = EmptyStr
    /\ searchPlan = <<>>
    /\ currentSearchIndex = "0"
    /\ completedSearches = "0"
    /\ pc = "idle"
    /\ buffer = <<>>
    /\ locked = FALSE
    /\ wire = <<>>
    /\ sent = <<>>
    /\ probes = 1
    /\ log = <<>>
    /\ requests = 0
    /\ other = NoSession

\* The callbacks' writes, applied to the component state.
SetUi(st) ==
    /\ loading' = st.loading
    /\ result' = st.result
    /\ error' = st.error
    /\ traceId' = st.traceId
    /\ serverStatus' = st.serverStatus
    /\ currentStage' = st.currentStage
    /\ statusMessage' = st.statusMessage
    /\ searchPlan' = st.searchPlan
    /\ currentSearchIndex' = st.currentSearchIndex
    /\ completedSearches' = st.completedSearches

\* ------------------------------------------------------------ health probe
\* A faulty variant: a probe that finds the server also clears the error.
HealthCheckResolvesClearsError(ok) ==
    /\ probes > 0
    /\ probes' = probes - 1
    /\ serverStatus' = IF ok THEN "online" ELSE "offline"
    /\ error' = IF ok THEN Null ELSE error
    /\ UNCHANGED <<query, currentQuery, loading, result, traceId,
                   currentStage, statusMessage, searchPlan, currentSearchIndex,
                   completedSearches, streamVars, envVars, log, histVars>>

\* checkServerStatus resolving: the probe issued on mount or by `Check again`.
HealthCheckResolves(ok) ==
    /\ probes > 0
    /\ probes' = probes - 1
    /\ serverStatus' = IF ok THEN "online" ELSE "offline"
    /\ UNCHANGED <<query, currentQuery, loading, result, error, traceId,
                   currentStage, statusMessage, searchPlan, currentSearchIndex,
                   completedSearches, streamVars, envVars, log, histVars>>

\* The `Check again` button of the offline warning.
ClickCheckAgain ==
    /\ serverStatus = "offline"
    /\ probes < MaxProbes
    /\ probes' = probes + 1
    /\ UNCHANGED <<query, currentQuery, uiVars, streamVars, envVars, log, histVars>>

\* ------------------------------------------------------------ the input
InputDisabled == loading \/ serverStatus = "offline"

\* onChange of the input field.
TypeQuery(q) ==
    /\ ~InputDisabled
    /\ query' = q
    /\ UNCHANGED <<currentQuery, uiVars, streamVars, envVars, probes, log, histVars>>

\* The questions the results offer for a follow-up.
FollowUpQuestions == {"f"}

\* A faulty variant: the follow-up also records the question as the query of
\* the session.
ClickFollowUpSetsCurrent(question) ==
    /\ Truthy(result)
    /\ query' = question
    /\ currentQuery' = question
    /\ UNCHANGED <<uiVars, streamVars, envVars, probes, log, histVars>>

\* handleFollowUp, the click on a follow-up question of the results shown.
ClickFollowUp(question) ==
    /\ Truthy(result)
    /\ query' = question
    /\ UNCHANGED <<currentQuery, uiVars, streamVars, envVars, probes, log, histVars>>

\* ------------------------------------------------------------ handleResearch
\* A faulty variant: the reset leaves out the plan and the two counters.
StartSessionKeepsPlan(q) ==
    /\ requests < MaxRequests
    /\ loading' = TRUE
    /\ error' = Null
    /\ result' = Null
    /\ traceId' = Undefined
    /\ currentQuery' = Trim(q)
    /\ currentStage' = EmptyStr
    /\ statusMessage' = EmptyStr
    /\ pc' = "fetch"
    /\ buffer' = <<>>
    /\ locked' = FALSE
    /\ wire' = <<>>
    /\ sent' = <<>>
    /\ log' = <<>>
    /\ requests' = requests + 1
    /\ UNCHANGED <<serverStatus, probes, other, searchPlan, currentSearchIndex,
                   completedSearches>>

\* The body of handleResearch after its guard, as invoked with `q` the query
\* of the render it closes over: the state reset and the request issued by
\* researchStream.
StartSession(q) ==
    /\ requests < MaxRequests
    /\ loading' = TRUE
    /\ error' = Null
    /\ result' = Null
    /\ traceId' = Undefined
    /\ currentQuery' = Trim(q)
    /\ currentStage' = EmptyStr
    /\ statusMessage' = EmptyStr
    /\ searchPlan' = <<>>
    /\ currentSearchIndex' = "0"
    /\ completedSearches' = "0"
    /\ pc' = "fetch"
    /\ buffer' = <<>>
    /\ locked' = FALSE
    /\ wire' = <<>>
    /\ sent' = <<>>
    /\ log' = <<>>
    /\ requests' = requests + 1
    /\ UNCHANGED <<serverStatus, probes, other>>

\* A faulty variant: handleResearch without `if (!query.trim()) return`.
handleResearchUnguarded(q) == StartSession(q)

\* handleResearch: it returns at once when the query is empty after trimming.
handleResearch(q) ==
    IF Trim(q) = "" THEN
        UNCHANGED <<currentQuery, uiVars, streamVars, envVars, probes, log, histVars>>
    ELSE StartSession(q)

\* A faulty variant: the start button is not disabled while offline.
StartDisabledIgnoresOffline == loading \/ Trim(query) = ""

\* A faulty variant: the start button is not disabled while loading.
StartDisabledIgnoresLoading == Trim(query) = "" \/ serverStatus = "offline"

\* `disabled` of the Start Research button.
StartDisabled == loading \/ Trim(query) = "" \/ serverStatus = "offline"

\* The Start Research button.
ClickStart ==
    /\ ~StartDisabled
    /\ handleResearch(query)
    /\ UNCHANGED query

\* handleKeyPress with the Enter key, in the input field.
PressEnter ==
    /\ ~InputDisabled
    /\ ~loading /\ Trim(query) # ""
    /\ handleResearch(query)
    /\ UNCHANGED query

\* handleRetry, the Try Again button of the error display: setQuery(currentQuery)
\* and handleResearch(), which reads the query of the current render.
ClickTryAgain ==
    /\ Truthy(error)
    /\ currentQuery # ""
    /\ query' = currentQuery
    /\ handleResearch(query)

\* ------------------------------------------------------------ researchStream
\* A faulty variant: the catch block records the error and leaves `loading`.
CatchStateKeepsLoading(st, message) ==
    [st EXCEPT !.error = message, !.serverStatus = "offline"]

\* The writes of the catch block of handleResearch.
CatchState(st, message) ==
    [st EXCEPT !.error = message,
               !.serverStatus = "offline",
               !.loading = FALSE]

\* The catch block of handleResearch.
Catch(message) == SetUi(CatchState(UiState, message))

FetchFailures == {"'Failed to fetch'", "'HTTP error! status: 500'", "'Stream not available'"}

\* A faulty variant: a failed request is issued again instead of reported.
FetchFailsAndRetries(message) ==
    /\ pc = "fetch"
    /\ IF requests < MaxRequests
       THEN /\ requests' = requests + 1
            /\ UNCHANGED <<query, currentQuery, uiVars, streamVars, envVars,
                           probes, log, other>>
       ELSE /\ pc' = "done"
            /\ Catch(message)
            /\ UNCHANGED <<query, currentQuery, buffer, locked, envVars, probes,
                           log, histVars>>

\* fetch rejects, the status is not ok, or the response has no body.
FetchFails(message) ==
    /\ pc = "fetch"
    /\ pc' = "done"
    /\ Catch(message)
    /\ UNCHANGED <<query, currentQuery, buffer, locked, envVars, probes, log, histVars>>

\* The response arrives and its reader is acquired.
FetchOk ==
    /\ pc = "fetch"
    /\ pc' = "read"
    /\ locked' = TRUE
    /\ UNCHANGED <<query, currentQuery, uiVars, buffer, envVars, probes, log, histVars>>

\* The service writes one line and its newline.
ServerWrite(line) ==
    /\ pc = "read"
    /\ LineCount(sent) < MaxLines
    /\ wire' = wire \o line \o <<NL>>
    /\ sent' = sent \o line \o <<NL>>
    /\ UNCHANGED <<query, currentQuery, uiVars, streamVars, probes, log, histVars>>

\* The service writes a line without its newline.
ServerWritePartial(line) ==
    /\ pc = "read"
    /\ line # <<>>
    /\ LineCount(sent) < MaxLines
    /\ IF sent = <<>> THEN TRUE ELSE sent[Len(sent)] = NL
    /\ wire' = wire \o line
    /\ sent' = sent \o line
    /\ UNCHANGED <<query, currentQuery, uiVars, streamVars, probes, log, histVars>>

\* reader.read() resolves with the next n tokens of the response (n may be 0),
\* and the loop body runs on them.
ReadChunk(n) ==
    /\ pc = "read"
    /\ n \in 0..Len(wire)
    /\ LET r == ProcessChunk(buffer, UiState, SubSeq(wire, 1, n))
       IN /\ buffer' = r.buffer
          /\ SetUi(r.st)
          /\ log' = log \o r.log
          /\ pc' = IF r.stop THEN "done" ELSE "read"
          /\ locked' = ~r.stop
    /\ wire' = SubSeq(wire, n + 1, Len(wire))
    /\ UNCHANGED <<query, currentQuery, sent, probes, histVars>>

\* The service has ended the response and all of it was read: reader.read()
\* resolves with done, the loop is left, the lock released and researchStream
\* resolves.
ReadDone ==
    /\ pc = "read"
    /\ wire = <<>>
    /\ pc' = "done"
    /\ locked' = FALSE
    /\ UNCHANGED <<query, currentQuery, uiVars, buffer, envVars, probes, log, histVars>>

\* reader.read() rejects: the lock is released and handleResearch catches.
ReadFails ==
    /\ pc = "read"
    /\ pc' = "done"
    /\ locked' = FALSE
    /\ Catch("'network error'")
    /\ UNCHANGED <<query, currentQuery, buffer, envVars, probes, log, histVars>>

\* The service writes a whole response.
ServerRespond(text) ==
    /\ pc = "read"
    /\ sent = <<>>
    /\ wire' = text
    /\ sent' = text
    /\ UNCHANGED <<query, currentQuery, uiVars, streamVars, probes, log, histVars>>

\* The service writes the one line of a one-record response.
ServerWriteOnly(line) ==
    /\ sent = <<>>
    /\ ServerWrite(line)

\* ------------------------------------------------------------ two instances
compVars == <<query, currentQuery, uiVars, streamVars, envVars, probes, log>>

\* The component goes away while its session is reading the stream, and a new
\* instance is mounted. No effect of the component has a cleanup and researchStream
\* takes no abort signal: the session of the old instance goes on as it is.
Abandon ==
    /\ pc = "read"
    /\ other.pc = "none"
    /\ other' = [pc |-> pc, buffer |-> buffer, locked |-> locked, wire |-> wire,
                 sent |-> sent, log |-> log, st |-> UiState]
    /\ query' = ""
    /\ currentQuery' = ""
    /\ SetUi(MountUi)
    /\ pc' = "idle"
    /\ buffer' = <<>>
    /\ locked' = FALSE
    /\ wire' = <<>>
    /\ sent' = <<>>
    /\ log' = <<>>
    /\ probes' = 1
    /\ UNCHANGED requests

\* A faulty variant: `buffer` is declared outside researchStream, one for all
\* calls.
OtherBufferShared == buffer

\* `let buffer` of the call of researchStream made by the old instance.
OtherBuffer == other.buffer

\* The steps of researchStream in the session of the old instance; its
\* callbacks write the state of the old instance.
\* The service writes the one line of the old session's response.
OtherServerWrite(line) ==
    /\ other.pc = "read"
    /\ other.sent = <<>>
    /\ other' = [other EXCEPT !.wire = @ \o line \o <<NL>>,
                              !.sent = @ \o line \o <<NL>>]
    /\ UNCHANGED <<compVars, requests>>

OtherReadChunk(n) ==
    /\ other.pc = "read"
    /\ n \in 0..Len(other.wire)
    /\ LET r == ProcessChunk(OtherBuffer, other.st, SubSeq(other.wire, 1, n))
       IN other' = [other EXCEPT !.buffer = r.buffer,
                                 !.st = r.st,
                                 !.log = @ \o r.log,
                                 !.pc = IF r.stop THEN "done" ELSE "read",
                                 !.locked = ~r.stop,
                                 !.wire = SubSeq(@, n + 1, Len(@))]
    /\ UNCHANGED <<compVars, requests>>

OtherReadDone ==
    /\ other.pc = "read"
    /\ other.wire = <<>>
    /\ other' = [other EXCEPT !.pc = "done", !.locked = FALSE]
    /\ UNCHANGED <<compVars, requests>>

OtherReadFails ==
    /\ other.pc = "read"
    /\ other' = [other EXCEPT !.pc = "done", !.locked = FALSE,
                              !.st = CatchState(@, "'network error'")]
    /\ UNCHANGED <<compVars, requests>>

OtherStream ==
       \E n \in 0..Len(other.wire) : OtherReadChunk(n)
    \/ OtherReadDone
    \/ OtherReadFails

User ==
    \/ \E q \in TypedQueries : TypeQuery(q)
    \/ \E q \in FollowUpQuestions : ClickFollowUp(q)
    \/ ClickStart
    \/ PressEnter
    \/ ClickTryAgain
    \/ ClickCheckAgain

Client ==
    \/ \E ok \in BOOLEAN : HealthCheckResolves(ok)
    \/ \E m \in FetchFailures : FetchFails(m)
    \/ FetchOk
    \/ \E n \in 0..Len(wire) : ReadChunk(n)
    \/ ReadDone
    \/ ReadFails

\* The component from its construction, across sessions.
Next ==
    \/ User
    \/ Client
    \/ \E l \in ShortLines : ServerWrite(l)

Spec == Init /\ [][Next]_vars

\* The component from its construction, every response being one record.
NextStart ==
    \/ User
    \/ Client
    \/ \E l \in TwoLines : ServerWriteOnly(l)

SpecStart == Init /\ [][NextStart]_vars

\* The component from its construction, every response being one of
\* Responses.
NextComp ==
    \/ User
    \/ Client
    \/ \E t \in Responses : ServerRespond(t)

SpecComp == Init /\ [][NextComp]_vars

\* ------------------------------------------------------------ one session
\* The state right after the query "b" was submitted with the server known
\* to be online: handleResearch has reset the state and issued the request.
InitSession ==
    /\ query = "b"
    /\ loading = TRUE
    /\ result = Null
    /\ error = Null
    /\ traceId = Undefined
    /\ currentQuery = "b"
    /\ serverStatus = "online"
    /\ currentStage = EmptyStr
    /\ statusMessage = EmptyStr
    /\ searchPlan = <<>>
    /\ currentSearchIndex = "0"
    /\ completedSearches = "0"
    /\ pc = "fetch"
    /\ buffer = <<>>
    /\ locked = FALSE
    /\ wire = <<>>
    /\ sent = <<>>
    /\ probes = 0
    /\ log = <<>>
    /\ requests = 1
    /\ other = NoSession

Stream ==
    \/ \E m \in FetchFailures : FetchFails(m)
    \/ FetchOk
    \/ \E n \in 0..Len(wire) : ReadChunk(n)
    \/ ReadDone
    \/ ReadFails

\* One session, the service sending any lines of Lines.
NextSession ==
    \/ Stream
    \/ \E l \in Lines : ServerWrite(l)

SpecSession == InitSession /\ [][NextSession]_vars

\* One session, the service sending any lines of FramingLines and leaving
\* lines unterminated.
NextFraming ==
    \/ Stream
    \/ \E l \in FramingLines : ServerWrite(l)
    \/ \E l \in PartialLines : ServerWritePartial(l)

SpecFraming == InitSession /\ [][NextFraming]_vars

\* One session, the service sending any lines of MissLines.
NextMiss ==
    \/ Stream
    \/ \E l \in MissLines : ServerWrite(l)

SpecMiss == InitSession /\ [][NextMiss]_vars

\* One session, the service sending any lines of TerminalLines.
NextTerminal ==
    \/ Stream
    \/ \E l \in TerminalLines : ServerWrite(l)

SpecTerminal == InitSession /\ [][NextTerminal]_vars

\* A session in flight whose instance may go away, and the sessions of the
\* instance mounted after it; every response is one record.
NextTwo ==
    \/ Abandon
    \/ OtherStream
    \/ \E l \in TwoLines : OtherServerWrite(l)
    \/ \E q \in TypedQueries : TypeQuery(q)
    \/ ClickStart
    \/ Stream
    \/ \E l \in TwoLines : ServerWriteOnly(l)

SpecTwo == InitSession /\ [][NextTwo]_vars

\* One session, the service sending any lines of OrderLines.
NextOrder ==
    \/ Stream
    \/ \E l \in OrderLines : ServerWrite(l)

SpecOrder == InitSession /\ [][NextOrder]_vars

\* One session, the service sending one record of any shape, read in one chunk.
NextShapes ==
    \/ FetchOk
    \/ \E l \in ShapeLines : ServerWriteOnly(l)
    \/ ReadChunk(Len(wire))
    \/ ReadDone

SpecShapes == InitSession /\ [][NextShapes]_vars

\* ------------------------------------------------------------ references
\* The text the session has read so far, in whatever chunks.
Consumed == SubSeq(sent, 1, Len(sent) - Len(wire))

\* The component state handleResearch leaves when it issues the request.
SessionStartUi ==
    [loading |-> TRUE, result |-> Null, error |-> Null, traceId |-> Undefined,
     serverStatus |-> "online", currentStage |-> EmptyStr,
     statusMessage |-> EmptyStr, searchPlan |-> <<>>,
     currentSearchIndex |-> "0", completedSearches |-> "0"]

\* A text delivered to a fresh session as one single chunk.
OneChunk(text) == ProcessChunk(<<>>, SessionStartUi, text)

\* The session ended in the catch block of handleResearch.
Caught == error \in FetchFailures \cup {"'network error'"}

Callbacks(l) == [i \in 1..Len(l) |-> l[i].cb]

\* C1: chunking invariance. However the text read so far was split into
\* chunks, the callbacks invoked, with their records and in their order, are
\* those of the same text delivered as one chunk.
C1_ChunkingInvariance ==
    pc \in {"read", "done"} => log = OneChunk(Consumed).log

\* C1 witness: a record was dispatched, and a chunk has ended in the middle of
\* the `data: ` prefix of a later line.
C1_Witness ==
    /\ pc = "read"
    /\ log # <<>>
    /\ buffer = <<"da">>
    /\ wire # <<>>

\* C2 (as claimed): a terminal callback is the last callback of the session.
C2_TerminalIsLast ==
    \A i \in 1..Len(log) : IsTerminal(log[i].cb) => i = Len(log)

\* C3 (as claimed): once researchStream has ended, the session has settled:
\* loading is false and a result or an error is recorded.
C3_SettledWhenStreamEnds ==
    pc = "done" => (~loading /\ (Truthy(result) \/ Truthy(error)))

\* The callbacks invoked by the step.
NewEvents == SubSeq(log', Len(log) + 1, Len(log'))

\* C4: a step that dispatches only SearchFailed records leaves the component
\* state unchanged and leaves researchStream reading.
C4_SearchFailedIsInert ==
    [][(Len(log') > Len(log)
        /\ \A i \in 1..Len(NewEvents) : NewEvents[i].cb = "onSearchError")
       => (uiVars' = uiVars /\ pc' = "read" /\ locked')]_vars

\* C4 witness: after a SearchFailed record, a later record was processed and
\* completed the session.
C4_Witness ==
    /\ Len(log) = 2
    /\ log[1].cb = "onSearchError"
    /\ log[1].arg = [currentSearch |-> "2", error |-> "'timeout'"]
    /\ log[2].cb = "onComplete"
    /\ result = "R1" /\ ~loading

\* The indices of the SearchStarted events of a log, in order.
RECURSIVE SearchIndices(_)
SearchIndices(l) ==
    IF l = <<>> THEN <<>>
    ELSE (IF Head(l).cb = "onSearch" THEN <<Num(Head(l).arg["currentSearch"])>> ELSE <<>>)
         \o SearchIndices(Tail(l))

NonDecreasing(ns) == \A i \in 1..Len(ns) : \A j \in i..Len(ns) : ns[i] <= ns[j]

\* C5 (as claimed): no step makes currentSearchIndex smaller.
C5_IndexNeverDecreases ==
    [][Num(currentSearchIndex') >= Num(currentSearchIndex)]_vars

\* C5 (amended): as long as the indices of the SearchStarted records the
\* service has sent do not decrease, no step makes currentSearchIndex smaller.
C5_IndexFollowsService ==
    [][NonDecreasing(SearchIndices(log'))
       => Num(currentSearchIndex') >= Num(currentSearchIndex)]_vars

\* C5 witness: two SearchStarted records with increasing indices were
\* processed, a Plan record between or after them.
C5_Witness ==
    /\ SearchIndices(log) = <<1, 2>>
    /\ currentSearchIndex = "2"

HasPlan(l) == \E i \in 1..Len(l) : l[i].cb = "onPlan"

\* C6 (as claimed): once a Plan event was processed, the plan never changes.
C6_PlanNeverChanges ==
    [][HasPlan(log) => searchPlan' = searchPlan]_vars

\* C6 (amended): once a Plan event was processed, the plan changes only by
\* a step that processes another Plan event.
C6_PlanChangesOnlyByPlan ==
    [][(HasPlan(log) /\ ~HasPlan(NewEvents)) => searchPlan' = searchPlan]_vars

\* C6 witness: a Plan event delivered a plan, another event followed, and the
\* plan is still the delivered one.
C6_Witness ==
    /\ Len(log) = 2
    /\ log[1].cb = "onPlan"
    /\ log[2].cb = "onSearch"
    /\ searchPlan = <<"s1", "s2">>

\* A text without its complete lines that are `data: ` lines with a payload
\* that is not JSON.
IsMalformed(line) == StartsWithData(line) /\ ~ParseOk(SubSeq(line, 3, Len(line)))

WithoutMalformed(text) ==
    LET pieces == Split(text)
    IN Join(SelectSeq(CompleteLines(pieces), LAMBDA l : ~IsMalformed(l))
            \o <<Carry(pieces)>>)

\* C7: the callbacks invoked and the component state are those of the text
\* read so far with its malformed `data: ` lines taken out.
C7_MalformedLineIsSkipped ==
    pc \in {"read", "done"} =>
        LET r == OneChunk(WithoutMalformed(Consumed))
        IN /\ log = r.log
           /\ ~Caught => UiState = r.st

\* C7 witness: the stream began with a malformed line and the terminal
\* record after it settled the session.
C7_Witness ==
    /\ pc = "done"
    /\ sent = MalformedLine \o <<NL>> \o DataLine(Stringify(CompleteRec)) \o <<NL>>
    /\ Callbacks(log) = <<"onComplete">>
    /\ result = "R1" /\ ~loading

\* ------------------------------------------------------------ shapes
\* The one record of a one-record response, once researchStream has read it.
Processed == sent # <<>> /\ wire = <<>> /\ pc \in {"read", "done"}
SentData == Parse(SubSeq(sent, 3, Len(sent) - 1))

\* The callback the record was dispatched to.
Dispatched == IF log = <<>> THEN "none" ELSE log[1].cb

Has(d, f) == f \in DOMAIN d
Min(S) == CHOOSE i \in S : \A j \in S : i <= j

\* The rules of the classifier as the specification words them: by the
\* fields a record has.
HasRule(i, d) ==
    CASE i = 1 -> Has(d, "stage")
      [] i = 2 -> Has(d, "searchPlan")
      [] i = 3 -> Has(d, "currentSearch") /\ Has(d, "searchItem")
      [] i = 4 -> Has(d, "currentSearch") /\ Has(d, "completed")
      [] i = 5 -> Has(d, "currentSearch") /\ Has(d, "error")
      [] i = 6 -> Has(d, "success")

\* The rules with stage, searchPlan, searchItem and error tested for a truthy
\* value and currentSearch, completed and success for presence.
TruthyRule(i, d) ==
    CASE i = 1 -> Truthy(Get(d, "stage"))
      [] i = 2 -> Truthy(Get(d, "searchPlan"))
      [] i = 3 -> Has(d, "currentSearch") /\ Truthy(Get(d, "searchItem"))
      [] i = 4 -> Has(d, "currentSearch") /\ Has(d, "completed")
      [] i = 5 -> Has(d, "currentSearch") /\ Truthy(Get(d, "error"))
      [] i = 6 -> Has(d, "success")

\* The callbacks of a rule.
RuleCallbacks(i) ==
    CASE i = 1 -> {"onStatus"}
      [] i = 2 -> {"onPlan"}
      [] i = 3 -> {"onSearch"}
      [] i = 4 -> {"onSearchComplete"}
      [] i = 5 -> {"onSearchError"}
      [] i = 6 -> {"onComplete", "onError"}

HasMatching(d) == {i \in 1..6 : HasRule(i, d)}
TruthyMatching(d) == {i \in 1..6 : TruthyRule(i, d)}

\* The session has not ended: neither a result nor an error, still loading.
NotSettled == loading /\ result = Null /\ error = Null

\* C8 (as claimed): a record that has the fields of more than one rule is
\* dispatched to exactly one callback, that of the earliest such rule; with
\* `stage` and `success` it is a Status and does not end the session; with
\* `currentSearch`, `searchItem` and `error` (and neither `stage` nor
\* `searchPlan`) it is a SearchStarted.
C8_FirstMatchByFields ==
    Processed =>
        LET d == SentData
        IN /\ Cardinality(HasMatching(d)) >= 2 =>
                Len(log) = 1 /\ Dispatched \in RuleCallbacks(Min(HasMatching(d)))
           /\ (Has(d, "stage") /\ Has(d, "success")) =>
                Dispatched = "onStatus" /\ NotSettled
           /\ (Has(d, "currentSearch") /\ Has(d, "searchItem") /\ Has(d, "error")
               /\ ~Has(d, "stage") /\ ~Has(d, "searchPlan")) =>
                Dispatched = "onSearch"

\* C8 (amended): the same with the rules as tested for truthy values.
C8_FirstMatchWins ==
    Processed =>
        LET d == SentData
        IN /\ Cardinality(TruthyMatching(d)) >= 2 =>
                Len(log) = 1 /\ Dispatched \in RuleCallbacks(Min(TruthyMatching(d)))
           /\ (Truthy(Get(d, "stage")) /\ Has(d, "success")) =>
                Dispatched = "onStatus" /\ NotSettled
           /\ (Has(d, "currentSearch") /\ Truthy(Get(d, "searchItem")) /\ Has(d, "error")
               /\ ~Truthy(Get(d, "stage")) /\ ~Truthy(Get(d, "searchPlan"))) =>
                Dispatched = "onSearch"

\* C8 witness: a record with a stage and `success: true` was dispatched as a
\* Status and the session goes on.
C8_Witness ==
    /\ Processed
    /\ Get(SentData, "stage") = "'planning'"
    /\ Get(SentData, "success") = "true"
    /\ Get(SentData, "error") = "'timeout'"
    /\ Callbacks(log) = <<"onStatus">>
    /\ currentStage = "'planning'"
    /\ NotSettled

\* A record without those of its fields stage, searchPlan, searchItem and
\* error that hold a falsy value.
ValueTested == {"stage", "searchPlan", "searchItem", "error"}
WithoutFalsy(d) ==
    [f \in {g \in DOMAIN d : g \in ValueTested => Truthy(d[g])} |-> d[f]]

\* C9 (as claimed): rules 1 to 5 go by the fields a record has, whatever
\* their values.
C9_RulesByFields ==
    Processed =>
        LET m == HasMatching(SentData) \cap (1..5)
        IN m # {} => Dispatched \in RuleCallbacks(Min(m))

\* C9 (amended): rules 1 to 5 go by the fields a record has once stage,
\* searchPlan, searchItem and error count as absent when their value is
\* falsy; currentSearch and completed count as present with every value.
C9_RulesByTruthyFields ==
    Processed =>
        LET m == HasMatching(WithoutFalsy(SentData)) \cap (1..5)
        IN IF m # {} THEN Dispatched \in RuleCallbacks(Min(m))
           ELSE Dispatched \in {"none", "onComplete", "onError"}

\* C9 witness: a record with an empty stage, currentSearch 0 and a search
\* item was dispatched as a SearchStarted, which set the index to 0.
C9_Witness ==
    /\ Processed
    /\ Get(SentData, "stage") = EmptyStr
    /\ Get(SentData, "currentSearch") = "0"
    /\ Get(SentData, "searchItem") = Item
    /\ Callbacks(log) = <<"onSearch">>
    /\ log[1].arg["currentSearch"] = "0"

\* C10 (as claimed): a record that has `success` and the fields of none of
\* rules 1 to 5 is a Complete exactly when success is true, otherwise a Failed.
C10_CompleteIffTrue ==
    Processed =>
        LET d == SentData
        IN (HasMatching(d) \cap (1..5) = {} /\ Has(d, "success")) =>
              /\ Dispatched = "onComplete" <=> d["success"] = "true"
              /\ Dispatched = "onError" <=> d["success"] # "true"

\* C10 (amended): a record that has `success` and matches none of rules 1 to
\* 5 is a Complete exactly when the value of success is truthy, otherwise a
\* Failed.
C10_CompleteIffTruthy ==
    Processed =>
        LET d == SentData
        IN (TruthyMatching(d) \cap (1..5) = {} /\ Has(d, "success")) =>
              /\ Dispatched = "onComplete" <=> Truthy(d["success"])
              /\ Dispatched = "onError" <=> ~Truthy(d["success"])

\* C10 witness: a record whose success is the number 1 was dispatched as a
\* Complete.
C10_Witness ==
    /\ Processed
    /\ SentData = [success |-> "1"]
    /\ Callbacks(log) = <<"onComplete">>

\* ------------------------------------------------------------ misses
\* A complete `data: ` line whose payload is JSON and matches no rule.
IsUnclassified(line) ==
    /\ StartsWithData(line)
    /\ ParseOk(SubSeq(line, 3, Len(line)))
    /\ TruthyMatching(Parse(SubSeq(line, 3, Len(line)))) = {}

WithoutUnclassified(text) ==
    LET pieces == Split(text)
    IN Join(SelectSeq(CompleteLines(pieces), LAMBDA l : ~IsUnclassified(l))
            \o <<Carry(pieces)>>)

\* C11: a well-formed record that matches no rule is dropped. The callbacks
\* invoked and the component state are those of the text read so far with
\* such records taken out, so no callback is invoked for them, they change
\* no state, and the records after them are processed as without them.
C11_UnclassifiedIsDropped ==
    pc \in {"read", "done"} =>
        LET r == OneChunk(WithoutUnclassified(Consumed))
        IN /\ log = r.log
           /\ ~Caught => UiState = r.st
           /\ r.stop => pc = "done"
           /\ locked <=> pc = "read"

\* C11 witness: the stream began with a record that matches no rule, nothing
\* was invoked for it, and the terminal record after it settled the session.
C11_Witness ==
    /\ pc = "done"
    /\ sent = DataLine(Stringify(OtherRec)) \o <<NL>>
              \o DataLine(Stringify(CompleteRec)) \o <<NL>>
    /\ Callbacks(log) = <<"onComplete">>
    /\ result = "R1" /\ ~loading

\* ------------------------------------------------------------ transport
\* C12 (as claimed): a session that failed at the transport had its failure
\* delivered through onError, the last callback invoked.
C12_TransportFailureViaOnError ==
    Caught => (log # <<>> /\ log[Len(log)].cb = "onError")

\* C12 (amended): a step by which the session fails at the transport invokes
\* no callback; researchStream ends with its reader released, and the
\* component state becomes what onError would have made it with the message
\* of the failure.
C12_TransportFailureIsCaught ==
    [][(Caught' /\ ~Caught) =>
          /\ log' = log
          /\ pc' = "done" /\ ~locked'
          /\ UiState' = onError(UiState, error')]_vars

\* C12 witness: a read failed in the middle of a line, after a Status was
\* processed; the session has failed and onError was never invoked.
C12_Witness ==
    /\ error = "'network error'"
    /\ Callbacks(log) = <<"onStatus">>
    /\ buffer # <<>>
    /\ pc = "done" /\ ~locked
    /\ ~loading /\ serverStatus = "offline"

\* ------------------------------------------------------------ terminals
\* The first line of the response has been read with its newline, and the
\* record it carries.
FirstLineRead == Len(Split(Consumed)) >= 2
FirstData == Parse(SubSeq(Split(sent)[1], 3, Len(Split(sent)[1])))

\* The first record reports `success: false` and matches none of rules 1 to 5.
FirstIsFailed ==
    /\ FirstLineRead
    /\ Get(FirstData, "success") = "false"
    /\ TruthyMatching(FirstData) \cap (1..5) = {}

\* The session has ended in failure with the error `e`, onError being the one
\* callback invoked, and researchStream has returned.
FailedWith(e) ==
    /\ error = e /\ ~loading /\ result = Null
    /\ Callbacks(log) = <<"onError">>
    /\ pc = "done" /\ ~locked

\* C13 (as claimed): when the service reports `success: false` with a
\* message, the session ends in failure with the error equal to the record's
\* `message` field, and reading stops.
C13_ErrorIsMessageField ==
    (FirstIsFailed /\ Has(FirstData, "message")) =>
        FailedWith(Get(FirstData, "message"))

\* C13 (amended): the error is the record's `message` when that is a
\* non-empty string (a truthy value), and 'Research failed' otherwise.
C13_ErrorIsMessageOrDefault ==
    FirstIsFailed =>
        FailedWith(IF Truthy(Get(FirstData, "message"))
                   THEN Get(FirstData, "message") ELSE "'Research failed'")

\* C13 witness: the service reported a failure with the message 'boom' and
\* went on to send a Status; the session failed with 'boom' and the Status
\* was never read.
C13_Witness ==
    /\ sent = DataLine(Stringify(FailedRec)) \o <<NL>>
              \o DataLine(Stringify(StatusRec)) \o <<NL>>
    /\ FailedWith("'boom'")
    /\ wire # <<>>

\* The first record is a Complete: `success` is truthy and none of rules 1
\* to 5 matches.
FirstIsComplete ==
    /\ FirstLineRead
    /\ Truthy(Get(FirstData, "success"))
    /\ TruthyMatching(FirstData) \cap (1..5) = {}

\* C14 (as claimed): once a Complete record was processed the session has
\* settled in success: loading is false, a result is stored, error is null
\* and researchStream has stopped reading.
C14_CompleteSettles ==
    FirstIsComplete =>
        /\ ~loading
        /\ result \notin {Null, Undefined}
        /\ error = Null
        /\ pc = "done" /\ ~locked

\* ------------------------------------------------------------ cancellation
\* C15 (as claimed): a session abandoned in the middle of the stream has its
\* reader released, and no further callback of it is invoked.
C15_AbandonedSessionStops ==
    [][other.pc = "read" => (~other'.locked /\ other'.log = other.log)]_vars

\* ------------------------------------------------------------ the reader
\* C16 (as claimed): the reader is released once researchStream has ended,
\* whichever way it ended, and once a terminal record was dispatched
\* researchStream has ended: no read is pending or issued on the reader.
C16_ReleasedAndNotReadAgain ==
    /\ pc = "done" => ~locked
    /\ (\E i \in 1..Len(log) : IsTerminal(log[i].cb)) => (pc = "done" /\ ~locked)

\* ------------------------------------------------------------ starting
\* C17: with a query that is empty after trimming no step issues a request
\* or sets currentQuery, and the attempt to start a session (Try Again, the
\* one control that calls handleResearch with such a query) changes no
\* session state.
C17_EmptyQueryFailsFast ==
    [][Trim(query) = "" =>
          /\ requests' = requests
          /\ currentQuery' = currentQuery
          /\ ClickTryAgain =>
                UNCHANGED <<uiVars, streamVars, envVars, log>>]_vars

\* C17 witness: a session for " a " failed, the query was then blanked and
\* Try Again pressed: the query is back to "a" (only Try Again writes it) and
\* the one request issued so far is that of the failed session.
C17_Witness ==
    /\ requests = 1
    /\ query = "a" /\ currentQuery = "a"
    /\ Truthy(error) /\ ~loading
    /\ pc = "done"

\* ------------------------------------------------------------ partial lines
\* The lines of a text that end with a newline, and the text after its last
\* newline.
RECURSIVE TerminatedFrom(_, _, _)
TerminatedFrom(text, piece, pieces) ==
    IF text = <<>> THEN pieces
    ELSE IF Head(text) = NL THEN TerminatedFrom(Tail(text), <<>>, Append(pieces, piece))
    ELSE TerminatedFrom(Tail(text), Append(piece, Head(text)), pieces)

TerminatedLines(text) == TerminatedFrom(text, <<>>, <<>>)

LastNewline(text) ==
    LET at == {i \in 1..Len(text) : text[i] = NL}
    IN IF at = {} THEN 0 ELSE CHOOSE i \in at : \A j \in at : j <= i

AfterLastNewline(text) == SubSeq(text, LastNewline(text) + 1, Len(text))

\* C18: the callbacks invoked are those of the newline-terminated lines read
\* so far, and while researchStream reads, the text after the last newline
\* is held in the buffer; at end-of-stream that text has produced no record.
C18_PartialLineNeverParsed ==
    pc \in {"read", "done"} =>
        /\ log = ProcessLines(SessionStartUi, TerminatedLines(Consumed), <<>>).log
        /\ pc = "read" => buffer = AfterLastNewline(Consumed)

\* C18 witness: the stream ended after a Status and a complete terminal
\* record without its newline; only the Status was dispatched and the
\* session has not settled.
C18_Witness ==
    /\ pc = "done" /\ ~locked
    /\ wire = <<>>
    /\ sent = DataLine(Stringify(StatusRec)) \o <<NL>> \o DataLine(Stringify(CompleteRec))
    /\ Callbacks(log) = <<"onStatus">>
    /\ NotSettled

\* ------------------------------------------------------------ order
\* The callback of a record by the rules: that of the first rule that
\* matches, "none" when none does.
RuleCallback(d) ==
    LET m == TruthyMatching(d)
    IN IF m = {} THEN "none"
       ELSE IF Min(m) = 6
            THEN (IF Truthy(Get(d, "success")) THEN "onComplete" ELSE "onError")
       ELSE CHOOSE cb \in RuleCallbacks(Min(m)) : TRUE

IsRecordLine(line) == StartsWithData(line) /\ ParseOk(SubSeq(line, 3, Len(line)))

\* The events of a sequence of lines, in the order of the lines, one for every
\* `data: ` line whose payload is JSON and matches a rule, up to and with
\* the first terminal record.
RECURSIVE EventsOf(_)
EventsOf(lines) ==
    IF lines = <<>> THEN <<>>
    ELSE IF ~IsRecordLine(Head(lines)) THEN EventsOf(Tail(lines))
    ELSE LET d == Parse(SubSeq(Head(lines), 3, Len(Head(lines))))
             cb == RuleCallback(d)
         IN IF cb = "none" THEN EventsOf(Tail(lines))
            ELSE IF IsTerminal(cb) THEN << <<cb, d>> >>
            ELSE << <<cb, d>> >> \o EventsOf(Tail(lines))

\* The i-th callback invoked with its argument, and the callback and the
\* argument an event stands for: the record, or the message of a Failed.
Delivered(i) == <<log[i].cb, log[i].arg>>
Expected(e) ==
    <<e[1],
      IF e[1] = "onError"
      THEN [message |-> IF Truthy(Get(e[2], "message")) THEN Get(e[2], "message")
                        ELSE "'Research failed'"]
      ELSE e[2]>>

\* The callbacks folded into the component state, in the order of the log.
RECURSIVE Fold(_, _)
Fold(st, l) ==
    IF l = <<>> THEN st
    ELSE Fold(Invoke(st, Head(l).cb, Head(l).arg), Tail(l))

\* C19: up to the first terminal record, the callbacks invoked are those of
\* the newline-terminated `data: ` lines with a JSON payload read so far, one
\* for each line whose record matches a rule, with that record and in the
\* order of the lines; and the component state is the fold of the callbacks
\* invoked, in that order.
C19_OnceEachInOrder ==
    pc \in {"read", "done"} =>
        LET e == EventsOf(TerminatedLines(Consumed))
        IN /\ Len(log) >= Len(e)
           /\ \A i \in 1..Len(e) : Delivered(i) = Expected(e[i])
           /\ (e = <<>> \/ ~IsTerminal(e[Len(e)][1])) => Len(log) = Len(e)
           /\ UiState = IF Caught THEN CatchState(Fold(SessionStartUi, log), error)
                        ELSE Fold(SessionStartUi, log)

\* C19 witness: a SearchStarted and then a Plan were sent and read; each was
\* dispatched once, the SearchStarted first, and both are folded into the
\* state.
C19_Witness ==
    /\ pc = "read"
    /\ sent = DataLine(Stringify(SearchRec("1"))) \o <<NL>>
              \o DataLine(Stringify(PlanRecA)) \o <<NL>>
    /\ wire = <<>>
    /\ Callbacks(log) = <<"onSearch", "onPlan">>
    /\ currentSearchIndex = "1"
    /\ searchPlan = <<"s1", "s2">>
    /\ statusMessage = "'m2'"

\* ------------------------------------------------------------ two sessions
\* The text the session of the old instance has read so far, and whether it
\* ended in the catch block of its handleResearch.
OtherConsumed == SubSeq(other.sent, 1, Len(other.sent) - Len(other.wire))
OtherCaught == other.st.error \in FetchFailures \cup {"'network error'"}

\* The state handleResearch leaves in a new instance whose health probe has
\* not resolved.
NewStartUi == [SessionStartUi EXCEPT !.serverStatus = "unknown"]

\* The callbacks and the state of a session that runs alone from `start`,
\* reads `text` in one chunk and, if `caught`, fails at the transport.
Alone(start, text, caught, message) ==
    LET r == ProcessChunk(<<>>, start, text)
    IN [log |-> r.log,
        st |-> IF caught THEN CatchState(r.st, message) ELSE r.st]

\* C20: with the session of an instance that went away and the session of
\* the instance mounted after it in flight at the same time, in every
\* interleaving of their chunks the callbacks and the state of each are those
\* of that session running alone on the text it has read. (Within one
\* instance no second session is in flight: while one is, the instance is
\* loading, which disables the controls that start a session.)
C20_SessionsIndependent ==
    /\ pc \in {"fetch", "read"} => loading
    /\ (other.pc # "none" /\ pc \in {"read", "done"}) =>
          LET a == Alone(SessionStartUi, OtherConsumed, OtherCaught, other.st.error)
              b == Alone(NewStartUi, Consumed, Caught, error)
          IN /\ other.log = a.log /\ other.st = a.st
             /\ log = b.log /\ UiState = b.st

\* C20 witness: both sessions are reading, each in the middle of a line, the
\* two buffers holding different texts.
C20_Witness ==
    /\ other.pc = "read" /\ pc = "read"
    /\ other.buffer # <<>> /\ buffer # <<>>
    /\ other.buffer # buffer
    /\ other.wire # <<>> /\ wire # <<>>

\* ------------------------------------------------------------ retry
\* C21 (as claimed): Try Again, with whatever text the input field holds,
\* starts a new session whose query is the query of the failed session.
C21_RetryUsesLastQuery ==
    [][(ClickTryAgain /\ Trim(query) # "") =>
          /\ requests' = requests + 1
          /\ pc' = "fetch"
          /\ currentQuery' = currentQuery]_vars

\* C22: currentQuery changes only in a step that starts a session, and then
\* to the trimmed query the session is started with; no other step (a
\* progress or terminal event, a probe, an edit of the input, a follow-up
\* click) changes it.
C22_QueryFixedAtStart ==
    [][currentQuery' # currentQuery =>
          /\ requests' = requests + 1
          /\ pc' = "fetch"
          /\ currentQuery' = Trim(query)]_vars

\* C22 witness: the session for "b" completed and a follow-up question was
\* put into the input afterwards; currentQuery is still "b".
C22_Witness ==
    /\ pc = "done"
    /\ Callbacks(log) = <<"onComplete">>
    /\ result = "R1"
    /\ query = "f"
    /\ currentQuery = "b"

\* ------------------------------------------------------------ a fresh session
\* The session fields hold the values handleResearch resets them to.
FreshSession ==
    /\ loading
    /\ result = Null /\ error = Null /\ traceId = Undefined
    /\ searchPlan = <<>>
    /\ currentSearchIndex = "0" /\ completedSearches = "0"
    /\ currentStage = EmptyStr /\ statusMessage = EmptyStr

\* C23: a step that starts a session leaves the session fields fresh, and
\* they stay so while the request is unanswered and until a record arrives.
C23_StartIsFresh ==
    (pc = "fetch" \/ (pc = "read" /\ Consumed = <<>>)) => FreshSession

\* C23 witness: a second session was started after an earlier one settled,
\* and its request is not answered yet.
C23_Witness ==
    /\ requests = 2
    /\ pc = "fetch"
    /\ loading

\* ------------------------------------------------------------ the Plan event
\* The index of the last SearchStarted event of a log, "0" (the value a
\* session starts with) when there is none.
RECURSIVE LastSearchIndex(_)
LastSearchIndex(l) ==
    IF l = <<>> THEN "0"
    ELSE IF l[Len(l)].cb = "onSearch" THEN Get(l[Len(l)].arg, "currentSearch")
    ELSE LastSearchIndex(SubSeq(l, 1, Len(l) - 1))

LastIsPlan == log # <<>> /\ log[Len(log)].cb = "onPlan"

PlanOfLast == SearchesOrEmpty(Get(log[Len(log)].arg, "searchPlan"))

\* C24 (as claimed): when the last event processed is a Plan event, the plan
\* is the items of the event and currentSearchIndex is 0.
C24_PlanResetsIndex ==
    LastIsPlan => (searchPlan = PlanOfLast /\ currentSearchIndex = "0")

\* C24 (amended): when the last event processed is a Plan event, the plan is
\* the items of the event and currentSearchIndex is what the events before
\* it left: the index of the last SearchStarted event, 0 when there was none.
C24_PlanKeepsIndex ==
    LastIsPlan => (searchPlan = PlanOfLast
                   /\ currentSearchIndex = LastSearchIndex(log))

\* C24 witness: a Plan event was processed after a SearchStarted event with
\* index 1; the plan is the event's and the index is still 1.
C24_Witness ==
    /\ Len(log) = 2
    /\ log[1].cb = "onSearch"
    /\ LastIsPlan
    /\ searchPlan = <<"s1", "s2">>
    /\ currentSearchIndex = "1"

\* ------------------------------------------------------------ progress events
ProgressCallbacks == {"onStatus", "onSearch", "onSearchComplete"}

\* The component state a progress event is to leave: its own two fields
\* taken from the record, every other field as it was.
AfterProgress(st, ev) ==
    CASE ev.cb = "onStatus" ->
           [st EXCEPT !.currentStage = Get(ev.arg, "stage"),
                      !.statusMessage = Get(ev.arg, "message")]
      [] ev.cb = "onSearch" ->
           [st EXCEPT !.currentSearchIndex = Get(ev.arg, "currentSearch"),
                      !.statusMessage = Get(ev.arg, "message")]
      [] ev.cb = "onSearchComplete" ->
           [st EXCEPT !.completedSearches = Get(ev.arg, "completed"),
                      !.statusMessage = Get(ev.arg, "message")]

OnlyProgress(evs) ==
    /\ evs # <<>>
    /\ \A i \in 1..Len(evs) : evs[i].cb \in ProgressCallbacks

\* C25: a step that processes one Status, SearchStarted or SearchCompleted
\* event sets the event's own fields from the record and nothing else, and a
\* step that processes only such events changes none of loading, result,
\* error, currentQuery and the plan.
C25_ProgressSetsOwnFields ==
    [][/\ (Len(NewEvents) = 1 /\ OnlyProgress(NewEvents))
          => (UiState' = AfterProgress(UiState, NewEvents[1])
              /\ currentQuery' = currentQuery)
       /\ (Len(log') > Len(log) /\ OnlyProgress(NewEvents))
          => UNCHANGED <<loading, result, error, currentQuery, searchPlan>>]_vars

\* C25 witness: a SearchStarted and a SearchCompleted event were processed,
\* each set its own counter, and the session is still running.
C25_Witness ==
    /\ Callbacks(log) = <<"onSearch", "onSearchComplete">>
    /\ currentSearchIndex = "2"
    /\ completedSearches = "1"
    /\ loading /\ result = Null /\ error = Null
    /\ currentQuery = "b"

\* ------------------------------------------------------------ other lines
\* A text without its complete lines that are not `data: ` lines: `event: `
\* lines, blank lines and lines of any other content.
WithoutNonData(text) ==
    LET pieces == Split(text)
    IN Join(SelectSeq(CompleteLines(pieces), StartsWithData)
            \o <<Carry(pieces)>>)

HasNonData(text) ==
    \E i \in 1..Len(CompleteLines(Split(text))) :
        ~StartsWithData(CompleteLines(Split(text))[i])

\* C26: the callbacks invoked and the component state are those of the text
\* read so far with its complete lines that are not `data: ` lines taken out.
C26_OtherLinesCarryNothing ==
    pc \in {"read", "done"} =>
        LET r == OneChunk(WithoutNonData(Consumed))
        IN /\ log = r.log
           /\ ~Caught => UiState = r.st

\* C26 witness: the stream began with an `event: ` line and the terminal
\* record after it settled the session as it does alone.
C26_Witness ==
    /\ pc = "done"
    /\ sent = EventLine \o <<NL>> \o DataLine(Stringify(CompleteRec)) \o <<NL>>
    /\ HasNonData(Consumed)
    /\ Callbacks(log) = <<"onComplete">>
    /\ result = "R1" /\ ~loading

\* ------------------------------------------------------------ no automatic retry
\* The step is one of the user's actions that start a session.
StartAction == ClickStart \/ PressEnter \/ ClickTryAgain

\* C27: a step issues at most one stream request, and only a step of the
\* start button, the Enter key or Try Again issues one; no step of the
\* client or the service does, after a failure or otherwise.
C27_NoAutomaticRetry ==
    [][requests' # requests => (requests' = requests + 1 /\ StartAction)]_vars

\* C27 witness: the one session failed, the user rechecked the server, which
\* is online again, and still only the one request was issued.
C27_Witness ==
    /\ pc = "done"
    /\ Truthy(error) /\ ~loading
    /\ serverStatus = "online"
    /\ probes = 0
    /\ requests = 1

\* ------------------------------------------------------------ the probe
\* C28: a step in which a probe resolves sets serverStatus to online or
\* offline and changes nothing else, no session field among it; a probe is
\* issued only by a step of `Check again`, one at a time, which changes
\* nothing else (the probe of the mount is pending when the component is
\* constructed).
C28_ProbeOnlyReportsReachability ==
    [][/\ probes' < probes
          => /\ probes' = probes - 1
             /\ serverStatus' \in {"online", "offline"}
             /\ UNCHANGED <<query, currentQuery, loading, result, error, traceId,
                            currentStage, statusMessage, searchPlan,
                            currentSearchIndex, completedSearches, streamVars,
                            envVars, log, histVars>>
       /\ probes' > probes
          => /\ probes' = probes + 1
             /\ serverStatus = "offline"
             /\ UNCHANGED <<query, currentQuery, uiVars, streamVars, envVars, log,
                            histVars>>]_vars

\* C28 witness: the probe of the mount found the server unreachable while a
\* session was reading its response; the session is as it was.
C28_Witness ==
    /\ pc = "read"
    /\ loading /\ result = Null /\ error = Null
    /\ serverStatus = "offline"
    /\ probes = 0
    /\ requests = 1

\* ------------------------------------------------------------ result and error
TransportMessages == FetchFailures \cup {"'network error'"}

LastIs(cb) == log # <<>> /\ log[Len(log)].cb = cb

\* C29: result and error are never both set; while loading both are null;
\* error is set only when the session has ended with a Failed event or a
\* transport failure, and result only when it has ended with a Complete
\* event whose callback ran.
C29_ResultAndErrorExclusive ==
    /\ ~(result # Null /\ error # Null)
    /\ loading => (result = Null /\ error = Null)
    /\ error # Null =>
          /\ pc = "done" /\ ~loading
          /\ LastIs("onError") \/ error \in TransportMessages
    /\ result # Null =>
          /\ pc = "done" /\ ~loading
          /\ LastIs("onComplete") /\ ~log[Len(log)].threw

\* C29 witness: a session failed and the next one completed; the result is
\* set and the error of the first is gone.
C29_Witness ==
    /\ requests = 2
    /\ pc = "done" /\ ~loading
    /\ LastIs("onComplete")
    /\ result = "R1"
    /\ error = Null
    /\ serverStatus = "offline"

\* ------------------------------------------------------------ one session in flight
\* researchStream has been called and has neither resolved nor rejected.
InFlight == pc \in {"fetch", "read"}

\* C30: while a session is in flight loading is true, and while loading is
\* true no step issues a stream request: the start button, the Enter key
\* and Try Again are not enabled.
C30_OneSessionInFlight ==
    [][/\ InFlight => loading
       /\ (loading \/ InFlight) => (requests' = requests /\ ~StartAction)]_vars

\* C30 witness: a session is reading its response with a query in the input
\* and the server online, and still only its one request was issued.
C30_Witness ==
    /\ pc = "read"
    /\ loading
    /\ Trim(query) # ""
    /\ serverStatus = "online"
    /\ sent # <<>>
    /\ requests = 1

\* ------------------------------------------------------------ offline
\* C31 (as claimed): no step issues a stream request while serverStatus is
\* offline.
C31_NoStartWhileOffline ==
    [][requests' # requests => serverStatus # "offline"]_vars

\* C31 (amended): while serverStatus is offline no step is one of the start
\* button or of the Enter key, and a step that issues a stream request is
\* one of Try Again, taken with an error shown.
C31_OnlyRetryWhileOffline ==
    [][serverStatus = "offline" =>
          /\ ~ClickStart /\ ~PressEnter
          /\ requests' # requests => (ClickTryAgain /\ Truthy(error))]_vars

\* C31 witness: the first session failed, which set serverStatus to offline,
\* and Try Again has issued the second request with the server still shown
\* offline and the probe of the mount still pending.
C31_Witness ==
    /\ requests = 2
    /\ pc = "fetch"
    /\ serverStatus = "offline"
    /\ probes = 1
    /\ query = "b" /\ currentQuery = "b"

\* ------------------------------------------------------------ a throwing callback
\* The callback of the last event the step dispatched threw.
LastNewThrew == NewEvents # <<>> /\ NewEvents[Len(NewEvents)].threw

\* C32: when the callback of the last record a step dispatches throws,
\* researchStream goes on reading with its reader held, the caller's catch
\* does not run (no error is recorded) and the session is not settled, also
\* when the callback is a terminal one.
C32_ThrowingCallbackIsSwallowed ==
    [][LastNewThrew =>
          /\ pc' = "read" /\ locked'
          /\ error' = error /\ result' = result /\ traceId' = traceId
          /\ loading' /\ serverStatus' = serverStatus]_vars

\* C32 witness: the callback of a Complete record threw and the Status
\* record after it was dispatched; the session is still loading and reading.
C32_Witness ==
    /\ Len(log) = 2
    /\ log[1].cb = "onComplete" /\ log[1].threw
    /\ log[2].cb = "onStatus"
    /\ currentStage = "'planning'"
    /\ loading /\ result = Null /\ error = Null
    /\ pc = "read" /\ locked

\* ------------------------------------------------------------ serverStatus
\* The step dispatched a Complete record whose callback ran.
Completes ==
    \E i \in 1..Len(NewEvents) : NewEvents[i].cb = "onComplete" /\ ~NewEvents[i].threw

\* C33: serverStatus becomes online only in a step in which a probe
\* resolves; a step that records an error, of a Failed record or of a
\* transport failure, sets it to offline; a step in which a session
\* completes leaves it as it is.
C33_OnlineOnlyByProbe ==
    [][/\ (serverStatus' = "online" /\ serverStatus # "online")
          => probes' = probes - 1
       /\ (error' # Null /\ error = Null) => serverStatus' = "offline"
       /\ Completes => serverStatus' = serverStatus]_vars

\* C33 witness: after a failed session the retry planned, searched and
\* completed, no probe is pending, and the server is still shown offline.
C33_Witness ==
    /\ requests = 2
    /\ Len(log) = 5
    /\ LastIs("onComplete")
    /\ searchPlan = <<"s1", "s2">>
    /\ result = "R1" /\ ~loading
    /\ probes = 0
    /\ serverStatus = "offline"

\* ------------------------------------------------------------ the buffer
HasNewline(text) == \E i \in 1..Len(text) : text[i] = NL

\* C34: once researchStream reads, the buffer left by the chunks processed
\* so far holds no newline and is the text read after the last newline.
C34_BufferIsLastPartialLine ==
    pc \in {"read", "done"} =>
        /\ ~HasNewline(buffer)
        /\ buffer = AfterLastNewline(Consumed)

\* C34 witness: a Status line was read and dispatched and the text after its
\* newline, a record without its newline, is all the buffer holds.
C34_Witness ==
    /\ pc = "read"
    /\ wire = <<>>
    /\ HasNewline(Consumed)
    /\ Callbacks(log) = <<"onStatus">>
    /\ buffer = DataLine(Stringify(CompleteRec))

====
